---------------------------- MODULE Spec2Model ----------------------------
(***************************************************************************)
(* Mask generation for the AFM cell datasets (code/02_make_masks.py and    *)
(* its variant code/02_make_masks_hoseyn.py): annotation keys are matched  *)
(* to image files, polygons are rasterized into masks, and a batch loop    *)
(* walks the dataset directories.                                          *)
(*                                                                         *)
(* File names are sequences of tokens ("cell", digits, "meas", ...), so    *)
(* that formatting (f"{n:04d}"), parsing (int, re.search), lower() and     *)
(* startswith are computed on the text as the code computes them.          *)
(***************************************************************************)
EXTENDS Integers, Sequences, FiniteSets, TLC

\* ------------------------------------------------------------------ bounds
\* Measurement numbers of the files and requests range over 0..MaxMeas.
MaxMeas == 6
\* A dataset folder of the resolver checks holds at most MaxFiles entries.
MaxFiles == 2
\* Images are 1..MaxDim pixels high and wide.
MaxDim == 2
\* A polygon list of the rasterizer checks holds at most MaxPts points.
MaxPts == 3
\* An annotation file of the batch checks holds at most MaxEntries entries.
MaxEntries == 2

\* ------------------------------------------------------------- text model
Digits == <<"0", "1", "2", "3", "4", "5", "6", "7", "8", "9">>

DigitSet == {Digits[i] : i \in 1..10}

IsDigit(t) == t \in DigitSet

DigitVal(t) == (CHOOSE i \in 1..10 : Digits[i] = t) - 1

\* int("0005") = 5
RECURSIVE ParseInt(_)
ParseInt(ds) ==
    IF ds = <<>> THEN 0
    ELSE 10 * ParseInt(SubSeq(ds, 1, Len(ds) - 1)) + DigitVal(ds[Len(ds)])

\* str(n) for n >= 0
RECURSIVE NatDigits(_)
NatDigits(n) ==
    IF n < 10 THEN <<Digits[n + 1]>>
    ELSE NatDigits(n \div 10) \o <<Digits[(n % 10) + 1]>>

RECURSIVE ZeroPad(_, _)
ZeroPad(ds, width) ==
    IF Len(ds) >= width THEN ds ELSE ZeroPad(<<"0">> \o ds, width)

\* f"{n:0{width}d}": the sign takes one column of the width.
FormatInt(n, width) ==
    IF n >= 0 THEN ZeroPad(NatDigits(n), width)
    ELSE <<"-">> \o ZeroPad(NatDigits(-n), width - 1)

\* str.lower() on the tokens
LowerTok(t) ==
    CASE t = "CELL" -> "cell"
      [] t = "MEAS" -> "meas"
      [] t = ".TIF" -> ".tif"
      [] OTHER -> t

Lower(s) == [i \in 1..Len(s) |-> LowerTok(s[i])]

StartsWith(s, prefix) ==
    /\ Len(s) >= Len(prefix)
    /\ SubSeq(s, 1, Len(prefix)) = prefix

\* "overlay" in s
ContainsOverlay(s) ==
    \E i \in 1..Len(s) : s[i] \in {"_overlay", "overlays", "overlay"}

\* The maximal run of digits of s that starts at position i.
RECURSIVE DigitRun(_, _)
DigitRun(s, i) ==
    IF i <= Len(s) /\ IsDigit(s[i]) THEN <<s[i]>> \o DigitRun(s, i + 1)
    ELSE <<>>

\* Character order of the tokens' first differing characters (ASCII).
TokRank(t) ==
    CASE t = "-" -> 0
      [] t = ".TIF" -> 1
      [] t = ".jpg" -> 2
      [] t = ".png" -> 3
      [] t = ".tif" -> 4
      [] t = ".tiff" -> 5
      [] IsDigit(t) -> 6 + DigitVal(t)
      [] t = "CELL" -> 16
      [] t = "MEAS" -> 17
      [] t = "_mask" -> 18
      [] t = "_overlay" -> 19
      [] t = "cell" -> 20
      [] t = "masks" -> 21
      [] t = "meas" -> 22
      [] t = "overlays" -> 23
      [] OTHER -> 24

\* a < b for strings (and for the paths of one directory)
RECURSIVE LexLess(_, _)
LexLess(a, b) ==
    IF a = <<>> THEN b # <<>>
    ELSE IF b = <<>> THEN FALSE
    ELSE IF a[1] = b[1] THEN LexLess(Tail(a), Tail(b))
    ELSE TokRank(a[1]) < TokRank(b[1])


\* ------------------------------------------------------------ file system
\* A directory entry: its stem and suffix, whether it is a regular file, for
\* an image whether cv2.imread decodes it and to what size, and for a mask
\* written by a pass its pixels.
NoFile ==
    [stem |-> <<>>, ext |-> "", isfile |-> FALSE, ok |-> FALSE, h |-> 0, w |-> 0,
     px |-> <<>>]

\* An image file that decodes to h rows by w columns.
Image(stem, ext, h, w) ==
    [stem |-> stem, ext |-> ext, isfile |-> TRUE, ok |-> TRUE, h |-> h, w |-> w,
     px |-> <<>>]

Img(stem, ext) == Image(stem, ext, 2, 2)

\* A file with an image suffix that cv2.imread cannot decode.
BadImage(stem, ext) ==
    [stem |-> stem, ext |-> ext, isfile |-> TRUE, ok |-> FALSE, h |-> 0, w |-> 0,
     px |-> <<>>]

Dir(stem) ==
    [stem |-> stem, ext |-> "", isfile |-> FALSE, ok |-> FALSE, h |-> 0, w |-> 0,
     px |-> <<>>]

Name(p) == IF p.ext = "" THEN p.stem ELSE p.stem \o <<p.ext>>

\* The order in which Path.iterdir() yields the entries of a directory is
\* the file system's: one of two orders, fixed for the run (rev).
\* sorted(folder.iterdir()) is the order of the names.
IterLess(rev, p, q) ==
    IF rev THEN LexLess(Name(q), Name(p)) ELSE LexLess(Name(p), Name(q))

\* The entry of the non-empty set ps that a loop in that order visits last.
LastOf(rev, ps) == CHOOSE p \in ps : \A q \in ps \ {p} : IterLess(rev, q, p)

IMG_EXTS(variant) ==
    IF variant = "main" THEN {".tif", ".tiff"}
    ELSE {".tif", ".tiff", ".png", ".jpg", ".jpeg"}

find_images(variant, entries) ==
    IF variant = "main"
    THEN {p \in entries :
            /\ p.isfile
            /\ LowerTok(p.ext) \in IMG_EXTS(variant)
            /\ ~ContainsOverlay(Lower(p.stem))}
    ELSE {p \in entries : p.isfile /\ LowerTok(p.ext) \in IMG_EXTS(variant)}

\* A dict built by assignments in a loop over items in the order rev: for
\* each key the value assigned last. key[p] is the key of item p.
DictOf(items, key, rev) ==
    [k \in {key[p] : p \in items} |-> LastOf(rev, {p \in items : key[p] = k})]

StemKey(items) == [p \in items |-> Lower(p.stem)]

index_images_by_stem(variant, rev, parent, entries) ==
    IF variant = "main"
    THEN LET kept == {p \in entries :
                        /\ p.isfile
                        /\ LowerTok(p.ext) \in {".tif", ".tiff"}
                        /\ parent \notin {"masks", "overlays"}
                        /\ ~ContainsOverlay(Lower(p.stem))}
         IN  DictOf(kept, StemKey(kept), FALSE)
    ELSE LET found == find_images(variant, entries)
         IN  DictOf(found, StemKey(found), rev)

\* ------------------------------------------------------- regular expressions
\* re.search(r"meas(\d+)", s): group 1 of the first match, <<>> for no match.
MeasSearch(s) ==
    LET hits == {i \in 1..Len(s) : s[i] = "meas" /\ DigitRun(s, i + 1) # <<>>}
    IN  IF hits = {} THEN <<>>
        ELSE DigitRun(s, (CHOOSE i \in hits : \A j \in hits : i <= j) + 1)

\* re.search(r"cell(\d+)meas(\d+)", s): the two groups, or <<>> for no match.
CellMeasSearch(s) ==
    LET Hit(i) ==
            LET c == DigitRun(s, i + 1)
                j == i + 1 + Len(c)
            IN  /\ s[i] = "cell"
                /\ c # <<>>
                /\ j <= Len(s)
                /\ s[j] = "meas"
                /\ DigitRun(s, j + 1) # <<>>
        hits == {i \in 1..Len(s) : Hit(i)}
    IN  IF hits = {} THEN <<>>
        ELSE LET i == CHOOSE x \in hits : \A y \in hits : x <= y
                 c == DigitRun(s, i + 1)
             IN  <<c, DigitRun(s, i + 2 + Len(c))>>

\* ----------------------------------------------------------- rapid resolver
CellPrefix(cell) == <<"cell">> \o FormatInt(cell, 2) \o <<"meas">>

MeasKey(p) == ParseInt(MeasSearch(Lower(p.stem)))

list_images_for_cell(variant, rev, entries, cell_str) ==
    LET prefix == CellPrefix(ParseInt(cell_str))
        hits == {p \in find_images(variant, entries) :
                    /\ StartsWith(Lower(p.stem), prefix)
                    /\ MeasSearch(Lower(p.stem)) # <<>>}
    IN  DictOf(hits, [p \in hits |-> MeasKey(p)], rev)

\* What a resolver hands back: a path, None, or an exception.
Found(p) == [tag |-> "path", path |-> p]

\* Mutant: a resolver that finds no image raises instead of returning None.
None_raises == [tag |-> "raise", path |-> NoFile]

None == [tag |-> "none", path |-> NoFile]
Raised == [tag |-> "raise", path |-> NoFile]

MinOf(S) == CHOOSE x \in S : \A y \in S : x <= y

\* Mutant: the last fallback picks the nearest measurement, not the smallest.
choose_rapid_image_nearest(variant, rev, entries, cell_str, meas_str) ==
    LET annot_meas == ParseInt(meas_str)
        by_meas == list_images_for_cell(variant, rev, entries, cell_str)
        Dist(k) == IF k < annot_meas THEN annot_meas - k ELSE k - annot_meas
    IN  IF DOMAIN by_meas = {} THEN None
        ELSE IF annot_meas \in DOMAIN by_meas THEN Found(by_meas[annot_meas])
        ELSE IF (annot_meas - 1) \in DOMAIN by_meas THEN Found(by_meas[annot_meas - 1])
        ELSE Found(by_meas[CHOOSE k \in DOMAIN by_meas :
                             \A o \in DOMAIN by_meas :
                                Dist(k) < Dist(o) \/ (Dist(k) = Dist(o) /\ k <= o)])

choose_rapid_image(variant, rev, entries, cell_str, meas_str) ==
    LET annot_meas == ParseInt(meas_str)
        by_meas == list_images_for_cell(variant, rev, entries, cell_str)
    IN  IF DOMAIN by_meas = {} THEN None
        ELSE IF annot_meas \in DOMAIN by_meas THEN Found(by_meas[annot_meas])
        ELSE IF (annot_meas - 1) \in DOMAIN by_meas THEN Found(by_meas[annot_meas - 1])
        ELSE Found(by_meas[MinOf(DOMAIN by_meas)])

\* ------------------------------------------------------------ rate resolver
stem_for(cell_str, meas_str) ==
    Lower(<<"cell">> \o FormatInt(ParseInt(cell_str), 2)
          \o <<"meas">> \o FormatInt(ParseInt(meas_str), 4))

\* Mutant: +1 is tried before -2.
DeltasPlusFirst == <<-1, 1, -2>>

\* The offsets tried after the exact stem, in the code's order.
Deltas == <<-1, -2, 1>>

choose_rate_image(stem, idx) ==
    IF stem \in DOMAIN idx THEN Found(idx[stem])
    ELSE
    LET m == CellMeasSearch(stem)
    IN  IF m = <<>> THEN None
        ELSE
        LET cell == ParseInt(m[1])
            meas == ParseInt(m[2])
            S2(i) == <<"cell">> \o FormatInt(cell, 2) \o <<"meas">>
                        \o FormatInt(meas + Deltas[i], 4)
            hits == {i \in 1..Len(Deltas) : S2(i) \in DOMAIN idx}
            same == {k \in DOMAIN idx : StartsWith(k, CellPrefix(cell))}
            \* sorted((int(...), k) ...): the order of the (meas, key) pairs
            Before(a, b) ==
                \/ ParseInt(MeasSearch(a)) < ParseInt(MeasSearch(b))
                \/ /\ ParseInt(MeasSearch(a)) = ParseInt(MeasSearch(b))
                   /\ LexLess(a, b)
            Dist(k) == LET d == ParseInt(MeasSearch(k)) - meas
                       IN  IF d < 0 THEN -d ELSE d
            \* min(per_cell, key=...): the first of the least in that order
            best == {k \in same : \A o \in same : Dist(k) <= Dist(o)}
            nearest_key == CHOOSE k \in best : \A o \in best \ {k} : Before(k, o)
        IN  IF hits # {} THEN Found(idx[S2(MinOf(hits))])
            ELSE IF \E k \in same : MeasSearch(k) = <<>> THEN Raised
            ELSE IF same # {} THEN Found(idx[nearest_key])
            ELSE None


\* -------------------------------------------------------------- rasterizer
\* np.asarray(poly, dtype=np.int32): the scalars of the points in order; a
\* ragged list of points is a ValueError (<<"error">> here).
RECURSIVE Flatten(_)
Flatten(poly) ==
    IF poly = <<>> THEN <<>> ELSE poly[1] \o Flatten(Tail(poly))

Ragged(poly) == \E i, j \in 1..Len(poly) : Len(poly[i]) # Len(poly[j])

\* .reshape(-1, 1, 2): the scalars in pairs; an odd count is a ValueError.
Reshape2(flat) == [i \in 1..(Len(flat) \div 2) |-> <<flat[2 * i - 1], flat[2 * i]>>]

\* A pixel of the line cv2 draws from a to b (8-connected).
OnSegment(x, y, a, b) ==
    LET dx == b[1] - a[1]
        dy == b[2] - a[2]
        adx == IF dx < 0 THEN -dx ELSE dx
        ady == IF dy < 0 THEN -dy ELSE dy
        cross == (y - a[2]) * dx - (x - a[1]) * dy
        off == IF cross < 0 THEN -cross ELSE cross
        Between(v, p, q) == (p <= v /\ v <= q) \/ (q <= v /\ v <= p)
    IN  /\ Between(x, a[1], b[1])
        /\ Between(y, a[2], b[2])
        /\ 2 * off <= (IF adx >= ady THEN adx ELSE ady)

\* The edge from a to b crosses the ray that leaves (x, y) to the right.
CrossesRay(x, y, a, b) ==
    /\ (a[2] <= y /\ y < b[2]) \/ (b[2] <= y /\ y < a[2])
    /\ IF b[2] > a[2]
       THEN (x - a[1]) * (b[2] - a[2]) < (b[1] - a[1]) * (y - a[2])
       ELSE (x - a[1]) * (b[2] - a[2]) > (b[1] - a[1]) * (y - a[2])

\* cv2.drawContours(mask, [cnt], -1, 255, thickness=-1) covers the
\* contour's closed outline and its interior.
Covered(cnt, x, y) ==
    LET n == Len(cnt)
        Nxt(i) == IF i = n THEN 1 ELSE i + 1
        edges == 1..n
    IN  \/ \E i \in edges : OnSegment(x, y, cnt[i], cnt[Nxt(i)])
        \/ Cardinality({i \in edges : CrossesRay(x, y, cnt[i], cnt[Nxt(i)])}) % 2 = 1

\* A clickData value: JSON null (Python None) or a list of polygons.
PyNone == [none |-> TRUE, items |-> <<>>]

PyList(items) == [none |-> FALSE, items |-> items]

\* Mutant: the size test admits contours of two points.
MinContourSizeTwoPoints == 2 * 2

\* cnt.size >= 6: a contour needs three points.
MinContourSize == 2 * 3

\* Mutant: only the interior is filled, the outline is not drawn.
drawContours_interior(mask, cnt) ==
    LET n == Len(cnt)
        Nxt(i) == IF i = n THEN 1 ELSE i + 1
        In(x, y) ==
            Cardinality({i \in 1..n : CrossesRay(x, y, cnt[i], cnt[Nxt(i)])}) % 2 = 1
    IN  [r \in DOMAIN mask |->
            [c \in DOMAIN mask[r] |-> IF In(c, r) THEN 255 ELSE mask[r][c]]]

\* Writes 255 into the pixels of the raster that the contour covers; what
\* lies outside the raster is clipped.
drawContours(mask, cnt) ==
    [r \in DOMAIN mask |->
        [c \in DOMAIN mask[r] |-> IF Covered(cnt, c, r) THEN 255 ELSE mask[r][c]]]

\* np.zeros((h, w), dtype=np.uint8)
Zeros(h, w) == [r \in 0..(h - 1) |-> [c \in 0..(w - 1) |-> 0]]

RasterError == [tag |-> "raise", mask |-> Zeros(0, 0)]

\* The loop of rasterize_mask from polygon i on.
RECURSIVE DrawFrom(_, _, _)
DrawFrom(mask, polys, i) ==
    IF i > Len(polys) THEN [tag |-> "ok", mask |-> mask]
    ELSE IF Ragged(polys[i]) \/ Len(Flatten(polys[i])) % 2 = 1 THEN RasterError
    ELSE LET cnt == Reshape2(Flatten(polys[i]))
         IN  IF 2 * Len(cnt) >= MinContourSize
             THEN DrawFrom(drawContours(mask, cnt), polys, i + 1)
             ELSE DrawFrom(mask, polys, i + 1)

rasterize_mask(h, w, polygons) ==
    DrawFrom(Zeros(h, w), IF polygons.none THEN <<>> ELSE polygons.items, 1)

\* ------------------------------------------------------- annotation files
At(s, i) == IF i \in 1..Len(s) THEN s[i] ELSE ""

\* str.strip()
RECURSIVE Strip(_)
Strip(s) ==
    IF s # <<>> /\ s[1] = " " THEN Strip(Tail(s))
    ELSE IF s # <<>> /\ s[Len(s)] = " " THEN Strip(SubSeq(s, 1, Len(s) - 1))
    ELSE s

RECURSIVE SpaceRun(_, _)
SpaceRun(s, i) == IF At(s, i) = " " THEN 1 + SpaceRun(s, i + 1) ELSE 0

\* Mutant: TUPLE_KEY_RE.match(s), which accepts text after the tuple.
TUPLE_KEY_RE_match(s) ==
    LET c == DigitRun(s, 3)
        i == 3 + Len(c)
        j == i + 2 + SpaceRun(s, i + 2)
        m == DigitRun(s, j + 1)
        e == j + 1 + Len(m)
    IN  IF /\ At(s, 1) = "("
           /\ At(s, 2) = "'"
           /\ c # <<>>
           /\ At(s, i) = "'"
           /\ At(s, i + 1) = ","
           /\ At(s, j) = "'"
           /\ m # <<>>
           /\ At(s, e) = "'"
           /\ At(s, e + 1) = ")"
        THEN <<c, m>>
        ELSE <<>>

\* TUPLE_KEY_RE.fullmatch(s), r"\('(\d+)',\s*'(\d+)'\)": the two groups, or
\* <<>> when s does not match.
TUPLE_KEY_RE(s) ==
    LET c == DigitRun(s, 3)
        i == 3 + Len(c)
        j == i + 2 + SpaceRun(s, i + 2)
        m == DigitRun(s, j + 1)
        e == j + 1 + Len(m)
    IN  IF /\ At(s, 1) = "("
           /\ At(s, 2) = "'"
           /\ c # <<>>
           /\ At(s, i) = "'"
           /\ At(s, i + 1) = ","
           /\ At(s, j) = "'"
           /\ m # <<>>
           /\ At(s, e) = "'"
           /\ At(s, e + 1) = ")"
           /\ Len(s) = e + 1
        THEN <<c, m>>
        ELSE <<>>

\* An annotation file: where it lies ("none": nowhere; "root": the layout's
\* first place; "alt": the dataset's annotations/ subfolder) and what its
\* text parses to ("garbage": not JSON).
AnnFile(place, kind, items) == [place |-> place, kind |-> kind, items |-> items]

\* Mutant: a file that cannot be read or parsed raises (no try/except).
load_json_uncaught(file) ==
    CASE file.kind = "object" -> [tag |-> "ok", items |-> file.items]
      [] file.kind \in {"array", "garbage"} -> [tag |-> "raise", items |-> <<>>]
      [] OTHER -> [tag |-> "ok", items |-> <<>>]

\* load_json(p) or {}, then .items(): the (key, entry) pairs the loop walks.
\* A missing or unparsable file, null and empty values give none; a
\* non-empty JSON array has no .items(), an AttributeError.
load_json(file) ==
    CASE file.kind = "object" -> [tag |-> "ok", items |-> file.items]
      [] file.kind = "array" -> [tag |-> "raise", items |-> <<>>]
      [] OTHER -> [tag |-> "ok", items |-> <<>>]

\* The annotation file a pass reads: the file, NoAnn when the pass returns
\* with "[skip] no annotations", or Unreadable when it goes on to read a
\* path that does not exist.
NoAnn == AnnFile("none", "skip", <<>>)

Unreadable == AnnFile("none", "garbage", <<>>)

find_annotations(variant, layout, file) ==
    IF file.place = "root" THEN file
    ELSE IF file.place = "alt" /\ variant = "main" THEN file
    ELSE IF variant = "hoseyn" /\ layout = "rapid" THEN Unreadable
    ELSE NoAnn

\* -------------------------------------------------------------- directories
Loc(root, ds, sub) == [root |-> root, ds |-> ds, sub |-> sub]

\* Mutant: the masks are written into the dataset folder itself.
mask_dir_in_dataset(variant, ds) == Loc("data", ds, "")

mask_dir(variant, ds) ==
    IF variant = "main" THEN Loc("data", ds, "masks") ELSE Loc("masks", ds, "")

ov_dir(variant, ds) ==
    IF variant = "main" THEN Loc("data", ds, "overlays") ELSE Loc("overlays", ds, "")

\* folder.iterdir(): the files of the directory and its subdirectories.
iterdir(fsys, made, loc) ==
    fsys[loc] \cup
    {Dir(<<d.sub>>) : d \in {d \in made : /\ d.root = loc.root
                                           /\ d.ds = loc.ds
                                           /\ loc.sub = ""
                                           /\ d.sub # ""}}

\* Mutant: a file that exists already is left as it is.
imwrite_keep_existing(fsys, loc, f) ==
    IF \E g \in fsys[loc] : g.stem = f.stem /\ g.ext = f.ext
    THEN fsys
    ELSE [fsys EXCEPT ![loc] = @ \cup {f}]

\* cv2.imwrite(path, ...): the file replaces one of the same name.
imwrite(fsys, loc, f) ==
    [fsys EXCEPT ![loc] = {g \in @ : Name(g) # Name(f)} \cup {f}]

MaskFile(img, mask) ==
    [stem |-> img.stem \o <<"_mask">>, ext |-> ".png", isfile |-> TRUE,
     ok |-> TRUE, h |-> img.h, w |-> img.w, px |-> mask]

OverlayFile(img) ==
    [stem |-> img.stem \o <<"_overlay">>, ext |-> ".png", isfile |-> TRUE,
     ok |-> TRUE, h |-> img.h, w |-> img.w, px |-> <<>>]

\* Mutant: the cap is one too high.
SAMPLE_OVERLAYS_PER_SET_plus_one == 12 + 1

SAMPLE_OVERLAYS_PER_SET == 12

\* ---------------------------------------------------------------- state
VARIABLES
    variant,   \* which script runs: "main" (02_make_masks.py) or "hoseyn"
    rev,       \* the file system's iterdir order (see IterLess)
    folder,    \* resolver checks: the entries of the dataset folder
    req,       \* resolver checks: the requested (cell_str, meas_str)
    op,        \* resolver checks: which resolver has run
    res,       \* resolver checks: what it returned
    shape,     \* rasterizer checks: <<h, w>>
    clicks,    \* rasterizer checks: the polygon list
    ras,       \* rasterizer checks: what rasterize_mask returned
    ann,       \* batch: dataset name -> its annotation file
    fs,        \* batch: directory -> the entries in it
    dirs,      \* batch: the output directories that exist
    phase,     \* batch: "main" loop, dataset "loop", "done", "crashed"
    di,        \* batch: position in sorted(DATA_DIR.iterdir())
    ei,        \* batch: position in im_ann.items()
    idx,       \* batch: the stem index of the rate dataset being processed
    cnt,       \* batch: made, miss, skip, manual, ov_written of the dataset
    log,       \* batch: the tallies printed so far, one per finished dataset
    run,       \* batch: how many times the script has been started
    snap,      \* batch: the mask files as the first run left them
    DATASET,   \* prune: the dataset the prune script is set to ("": not run)
    removed    \* prune: the number of mask files it removed

resolveVars == <<folder, req, op, res>>

rasterVars == <<shape, clicks, ras>>

batchVars == <<ann, fs, dirs, phase, di, ei, idx, cnt, log, run, snap, DATASET, removed>>

vars == <<variant, rev, resolveVars, rasterVars, batchVars>>

Variants == {"main", "hoseyn"}

\* ------------------------------------------------------- resolver inputs
Canon(cell, meas) ==
    <<"cell">> \o FormatInt(cell, 2) \o <<"meas">> \o FormatInt(meas, 4)

\* Entries a dataset folder may hold: the canonical images of cell 2, and
\* names the capture tools and earlier runs leave behind.
EntryPool ==
    {Img(Canon(2, m), ".tif") : m \in 0..MaxMeas} \cup
    { Img(<<"cell", "0", "2", "meas", "3">>, ".tif"),
      Img(<<"cell", "0", "2", "meas", "x">>, ".tif"),
      Img(<<"cell", "0", "2", "meas", "-", "0", "0", "1">>, ".tif"),
      Img(Canon(3, 1), ".tif"),
      Img(Canon(2, 1) \o <<"_overlay">>, ".tif"),
      Img(Canon(2, 2), ".png"),
      Img(<<"CELL", "0", "2", "MEAS", "0", "0", "0", "0">>, ".TIF"),
      Dir(<<"masks">>) }

Folders == {f \in SUBSET EntryPool : Cardinality(f) <= MaxFiles}

ReqCells == {<<"2">>, <<"0", "3">>}

ReqMeas == {FormatInt(m, 4) : m \in 0..MaxMeas} \cup {<<"5">>}

\* The name of the dataset folder of the resolver checks.
RateFolderName == "DN1-rate"

\* What the variables of the other checks hold while one of them runs.
IdleResolve ==
    /\ folder = {}
    /\ req = [cell_str |-> <<"0">>, meas_str |-> <<"0">>]
    /\ op = "none"
    /\ res = None

IdleRaster ==
    /\ shape = <<0, 0>>
    /\ clicks = PyNone
    /\ ras = [tag |-> "none", mask |-> Zeros(0, 0)]

IdleBatch ==
    /\ ann = <<>>
    /\ fs = <<>>
    /\ dirs = {}
    /\ phase = "idle"
    /\ di = 0
    /\ ei = 0
    /\ idx = <<>>
    /\ cnt = <<>>
    /\ log = <<>>
    /\ run = 0
    /\ snap = <<>>
    /\ DATASET = ""
    /\ removed = 0

\* ---------------------------------------------------- resolver checks
InitResolve ==
    /\ variant \in Variants
    /\ rev \in BOOLEAN
    /\ folder \in Folders
    /\ req \in [cell_str : ReqCells, meas_str : ReqMeas]
    /\ op = "none"
    /\ res = None
    /\ IdleRaster
    /\ IdleBatch

ChooseRapid ==
    /\ op = "none"
    /\ op' = "rapid"
    /\ res' = choose_rapid_image(variant, rev, folder, req.cell_str, req.meas_str)
    /\ UNCHANGED <<variant, rev, folder, req, rasterVars, batchVars>>

ChooseRate ==
    /\ op = "none"
    /\ op' = "rate"
    /\ res' = choose_rate_image(stem_for(req.cell_str, req.meas_str),
                   index_images_by_stem(variant, rev, RateFolderName, folder))
    /\ UNCHANGED <<variant, rev, folder, req, rasterVars, batchVars>>

NextResolve == ChooseRapid \/ ChooseRate

SpecResolve == InitResolve /\ [][NextResolve]_vars

\* -------------------------------------------------- rasterizer checks
\* Click positions: three inside the smallest images that hold them, three
\* that lie outside every image.
Points == {<<0, 0>>, <<1, 0>>, <<0, 1>>, <<-1, -1>>, <<-2, -1>>, <<-1, -2>>}

PointSeqs == UNION {[1..n -> Points] : n \in 0..MaxPts}

\* Lists of one or two polygons over a sequence of points, the empty list,
\* null, and lists whose points are not (x, y) pairs.
ClickLists ==
    {PyList(<<q>>) : q \in PointSeqs} \cup
    {PyList(<<SubSeq(q, 1, k), SubSeq(q, k + 1, Len(q))>>) :
        <<q, k>> \in {<<q, k>> \in PointSeqs \X (0..MaxPts) : k <= Len(q)}} \cup
    { PyNone,
      PyList(<<>>),
      PyList(<< <<<<0>>>> >>),
      PyList(<< <<<<0, 0>>, <<1>>>> >>),
      PyList(<< <<<<0, 0, 1>>, <<0, 0, 1>>>> >>) }

InitRaster ==
    /\ variant = "main"
    /\ rev = FALSE
    /\ shape \in (1..MaxDim) \X (1..MaxDim)
    /\ clicks \in ClickLists
    /\ ras = [tag |-> "none", mask |-> Zeros(0, 0)]
    /\ IdleResolve
    /\ IdleBatch

Rasterize ==
    /\ ras.tag = "none"
    /\ ras' = rasterize_mask(shape[1], shape[2], clicks)
    /\ UNCHANGED <<variant, rev, shape, clicks, resolveVars, batchVars>>

NextRaster == Rasterize

SpecRaster == InitRaster /\ [][NextRaster]_vars

\* ---------------------------------------------- rasterizer properties
\* Every polygon of the list is a sequence of (x, y) pairs.
WellFormed(polygons) ==
    \A i \in 1..Len(polygons.items) :
        \A j \in 1..Len(polygons.items[i]) : Len(polygons.items[i][j]) = 2

HasShape(mask, h, w) ==
    /\ DOMAIN mask = 0..(h - 1)
    /\ \A r \in DOMAIN mask : DOMAIN mask[r] = 0..(w - 1)

Pixels(mask) == UNION {{mask[r][c] : c \in DOMAIN mask[r]} : r \in DOMAIN mask}

\* C7: a polygon list that is null, empty or holds only polygons of fewer
\* than 3 points gives, without an error, an all-zero raster of h rows by
\* w columns.
C7_DegenerateAllZero ==
    (/\ ras.tag # "none"
     /\ WellFormed(clicks)
     /\ \A i \in 1..Len(clicks.items) : Len(clicks.items[i]) < 3) =>
        /\ ras.tag = "ok"
        /\ HasShape(ras.mask, shape[1], shape[2])
        /\ Pixels(ras.mask) = {0}

\* A list with a two-point polygon inside a non-square image was rasterized.
C7_Witness ==
    /\ ras.tag = "ok"
    /\ shape[1] # shape[2]
    /\ WellFormed(clicks)
    /\ \A i \in 1..Len(clicks.items) : Len(clicks.items[i]) < 3
    /\ \E i \in 1..Len(clicks.items) :
          /\ Len(clicks.items[i]) = 2
          /\ clicks.items[i][1] = <<0, 0>>

Inside(pt, h, w) == 0 <= pt[1] /\ pt[1] < w /\ 0 <= pt[2] /\ pt[2] < h

\* C8 as claimed: any list with a polygon of 3 or more points gives a mask
\* with a pixel at 255, all pixels being 0 or 255.
C8_ValidPolygonSetsPixel ==
    (/\ ras.tag # "none"
     /\ WellFormed(clicks)
     /\ \E i \in 1..Len(clicks.items) : Len(clicks.items[i]) >= 3) =>
        /\ ras.tag = "ok"
        /\ 255 \in Pixels(ras.mask)
        /\ Pixels(ras.mask) \subseteq {0, 255}

\* C8 amended: every pixel of a mask is 0 or 255, and a list with a polygon
\* of 3 or more points of which one lies inside the image gives a mask
\* with a pixel at 255.
C8_ValidPolygonInsideSetsPixel ==
    (ras.tag # "none" /\ WellFormed(clicks)) =>
        /\ ras.tag = "ok"
        /\ Pixels(ras.mask) \subseteq {0, 255}
        /\ (\E i \in 1..Len(clicks.items) :
               /\ Len(clicks.items[i]) >= 3
               /\ \E j \in 1..Len(clicks.items[i]) :
                     Inside(clicks.items[i][j], shape[1], shape[2]))
           => 255 \in Pixels(ras.mask)

\* A polygon of 3 points, one inside the image and one outside, was drawn.
C8_Witness ==
    /\ ras.tag = "ok"
    /\ 255 \in Pixels(ras.mask)
    /\ 0 \in Pixels(ras.mask)
    /\ \E i \in 1..Len(clicks.items) :
          /\ Len(clicks.items[i]) >= 3
          /\ \E j, k \in 1..Len(clicks.items[i]) :
                /\ Inside(clicks.items[i][j], shape[1], shape[2])
                /\ ~Inside(clicks.items[i][k], shape[1], shape[2])

\* ----------------------------------------------------------- batch inputs
\* sorted(DATA_DIR.iterdir()): a rapid dataset, a rate dataset, the rate
\* dataset's annotation folder and a plain file.
DataDir ==
    << [name |-> "DN1-rapid", suffix |-> "-rapid", isdir |-> TRUE],
       [name |-> "DN2-rate", suffix |-> "-rate", isdir |-> TRUE],
       [name |-> "DN2-rate_annotations", suffix |-> "_annotations", isdir |-> TRUE],
       [name |-> "notes.txt", suffix |-> ".txt", isdir |-> FALSE] >>

Datasets == {"DN1-rapid", "DN2-rate"}

LayoutOf(ds) == IF ds = "DN1-rapid" THEN "rapid" ELSE "rate"

OutputDirs ==
    {Loc("data", ds, sub) : ds \in Datasets, sub \in {"masks", "overlays"}} \cup
    {Loc(root, ds, "") : root \in {"masks", "overlays"}, ds \in Datasets}

AllDirs == {Loc("data", ds, "") : ds \in Datasets} \cup OutputDirs

\* "('02','0001')", with or without a blank after the comma
TupleKey(cell_str, gap, meas_str) ==
    <<"(", "'">> \o cell_str \o <<"'", ",">> \o gap \o <<"'">> \o meas_str \o <<"'", ")">>

Triangle == <<<<0, 0>>, <<1, 0>>, <<0, 1>>>>

Entry(selection, hasClick, clickData) ==
    [isdict |-> TRUE, selection |-> selection, hasClick |-> hasClick,
     clickData |-> clickData]

\* An entry that is not a JSON object (true, a number, a string).
NotADict ==
    [isdict |-> FALSE, selection |-> "", hasClick |-> FALSE, clickData |-> PyNone]

\* The (key, entry) pairs the annotation files are made of.
ItemPool ==
    << <<TupleKey(<<"0", "2">>, <<>>, <<"0", "0", "0", "1">>),
         Entry("manual", TRUE, PyList(<<Triangle>>))>>,
       <<TupleKey(<<"0", "2">>, <<" ">>, <<"0", "0", "0", "2">>),
         Entry("manual", TRUE, PyList(<<>>))>>,
       <<TupleKey(<<"0", "2">>, <<>>, <<"0", "0", "0", "3">>),
         Entry("exclude", TRUE, PyList(<<Triangle>>))>>,
       <<TupleKey(<<"0", "2">>, <<>>, <<"0", "0", "0", "1">>) \o <<"x">>,
         Entry("manual", TRUE, PyList(<<Triangle>>))>>,
       <<TupleKey(<<"0", "3">>, <<>>, <<"0", "0", "0", "1">>),
         Entry("manual", FALSE, PyNone)>>,
       <<TupleKey(<<"0", "2">>, <<>>, <<"0", "0", "0", "0">>), NotADict>>,
       <<TupleKey(<<"0", "2">>, <<>>, <<"0", "0", "0", "4">>),
         Entry("manual", TRUE, PyList(<< <<<<0, 0>>, <<1>>>> >>))>>,
       <<TupleKey(<<"0", "2">>, <<>>, <<"0", "0", "0", "5">>),
         Entry("manual", TRUE, PyList(<<Triangle>>))>> >>

\* The items numbered by S, in ascending or in descending order.
RECURSIVE ItemsOf(_, _)
ItemsOf(S, ascending) ==
    IF S = {} THEN <<>>
    ELSE LET lo == CHOOSE i \in S : \A j \in S : i <= j
             hi == CHOOSE i \in S : \A j \in S : i >= j
         IN  IF ascending THEN <<ItemPool[lo]>> \o ItemsOf(S \ {lo}, ascending)
             ELSE <<ItemPool[hi]>> \o ItemsOf(S \ {hi}, ascending)

AnnPool ==
    {AnnFile("root", "object", ItemsOf(S, asc)) :
        S \in {S \in SUBSET (1..Len(ItemPool)) : Cardinality(S) <= MaxEntries},
        asc \in BOOLEAN} \cup
    { AnnFile("none", "garbage", <<>>),
      AnnFile("root", "garbage", <<>>),
      AnnFile("root", "null", <<>>),
      AnnFile("root", "array", <<>>),
      AnnFile("alt", "object", <<ItemPool[1]>>) }

BatchEntryPool ==
    { Image(Canon(2, 1), ".tif", 2, 2),
      Image(Canon(2, 0), ".tif", 1, 2),
      BadImage(Canon(2, 2), ".tif"),
      Img(<<"cell", "0", "2", "meas", "x">>, ".tif") }

BatchFolders == {f \in SUBSET BatchEntryPool : Cardinality(f) <= MaxFiles}

\* The dataset that is not under test: one image, one manual entry.
PlainFolder == {Image(Canon(2, 1), ".tif", 2, 2)}

PlainAnn == AnnFile("root", "object", <<ItemPool[1]>>)

\* A dataset with more manual entries than the overlay cap: an image for
\* each measurement, one of them not decodable, and one entry that is not
\* manual among the entries.
LongLen == SAMPLE_OVERLAYS_PER_SET + 3

LongFolder ==
    {IF i = 3 THEN BadImage(Canon(2, i), ".tif")
     ELSE Image(Canon(2, i), ".tif", 1, 1) : i \in 1..LongLen}

LongAnn ==
    AnnFile("root", "object",
        [i \in 1..LongLen |->
            <<TupleKey(FormatInt(2, 2), <<>>, FormatInt(i, 4)),
              IF i = 2 THEN Entry("exclude", TRUE, PyList(<<Triangle>>))
              ELSE Entry("manual", TRUE, PyList(<<Triangle>>))>>])

\* What the dataset under test holds: its folder and its annotation file.
BatchInputs == (BatchFolders \X AnnPool) \cup {<<LongFolder, LongAnn>>}

ZeroCnt == [made |-> 0, miss |-> 0, skip |-> 0, manual |-> 0, ov_written |-> 0]

\* ------------------------------------------------------------------ batch
Init ==
    /\ variant \in Variants
    /\ rev = FALSE
    /\ IdleResolve
    /\ IdleRaster
    /\ \E focus \in Datasets, in \in BatchInputs :
          /\ ann = [ds \in Datasets |-> IF ds = focus THEN in[2] ELSE PlainAnn]
          /\ fs = [d \in AllDirs |->
                     IF d.root = "data" /\ d.sub = ""
                     THEN (IF d.ds = focus THEN in[1] ELSE PlainFolder)
                     ELSE {}]
    /\ dirs = {}
    /\ phase = "main"
    /\ di = 1
    /\ ei = 0
    /\ idx = <<>>
    /\ cnt = ZeroCnt
    /\ log = <<>>
    /\ run = 1
    /\ snap = <<>>
    /\ DATASET = ""
    /\ removed = 0

Sub == DataDir[di]

\* if not sub.is_dir(): continue
SkipFile ==
    /\ phase = "main"
    /\ di <= Len(DataDir)
    /\ ~Sub.isdir
    /\ di' = di + 1
    /\ UNCHANGED <<variant, rev, resolveVars, rasterVars,
                   ann, fs, dirs, phase, ei, idx, cnt, log, run, snap, DATASET, removed>>

\* else: continue (neither -rapid nor -rate)
SkipOther ==
    /\ phase = "main"
    /\ di <= Len(DataDir)
    /\ Sub.isdir
    /\ Sub.suffix \notin {"-rapid", "-rate"}
    /\ di' = di + 1
    /\ UNCHANGED <<variant, rev, resolveVars, rasterVars,
                   ann, fs, dirs, phase, ei, idx, cnt, log, run, snap, DATASET, removed>>

\* The head of process_rapid and process_rate, up to the entry loop.
Begin(layout) ==
    LET ds == Sub.name
        file == find_annotations(variant, layout, ann[ds])
        im_ann == load_json(file)
    IN  /\ phase = "main"
        /\ di <= Len(DataDir)
        /\ Sub.isdir
        /\ Sub.suffix = (IF layout = "rapid" THEN "-rapid" ELSE "-rate")
        /\ IF file = NoAnn
           THEN /\ di' = di + 1
                /\ UNCHANGED <<dirs, phase, ei, idx, cnt>>
           ELSE /\ idx' = IF layout = "rate"
                          THEN index_images_by_stem(variant, rev, ds,
                                   iterdir(fs, dirs, Loc("data", ds, "")))
                          ELSE <<>>
                /\ dirs' = dirs \cup {mask_dir(variant, ds), ov_dir(variant, ds)}
                /\ cnt' = ZeroCnt
                /\ ei' = 1
                /\ phase' = IF im_ann.tag = "raise" THEN "crashed" ELSE "loop"
                /\ UNCHANGED di
        /\ UNCHANGED <<variant, rev, resolveVars, rasterVars, ann, fs, log, run, snap, DATASET, removed>>

BeginRapid == Begin("rapid")

BeginRate == Begin("rate")

\* Mutant: any entry that is an object counts, whatever its selection.
IsManualAnyDict(entry) == entry.isdict

\* isinstance(entry, dict) and entry.get("selection") == "manual"
IsManual(entry) == entry.isdict /\ entry.selection = "manual"

Items == load_json(find_annotations(variant, LayoutOf(Sub.name), ann[Sub.name])).items

\* Mutant: every counted entry is counted as manual too.
Bump_and_manual(field) == [cnt EXCEPT ![field] = @ + 1, !.manual = @ + 1]

Bump(field) == [cnt EXCEPT ![field] = @ + 1]

\* One turn of the entry loop of process_rapid or process_rate. (vd_ann is
\* None, USE_VD_FILTER being False.)
LoopBody(layout) ==
    LET ds == Sub.name
        k == Items[ei][1]
        entry == Items[ei][2]
        m == TUPLE_KEY_RE(Strip(k))
        chosen ==
            IF layout = "rapid"
            THEN choose_rapid_image(variant, rev,
                     iterdir(fs, dirs, Loc("data", ds, "")), m[1], m[2])
            ELSE choose_rate_image(stem_for(m[1], m[2]), idx)
        img == chosen.path
        polys == IF entry.hasClick THEN entry.clickData ELSE PyList(<<>>)
        drawn == rasterize_mask(img.h, img.w, polys)
        withMask == imwrite(fs, mask_dir(variant, ds), MaskFile(img, drawn.mask))
    IN  /\ phase = "loop"
        /\ LayoutOf(ds) = layout
        /\ ei <= Len(Items)
        /\ IF m = <<>>
           THEN UNCHANGED <<fs, cnt, phase>>
           ELSE IF ~IsManual(entry)
           THEN cnt' = Bump("skip") /\ UNCHANGED <<fs, phase>>
           ELSE IF chosen.tag = "raise"
           THEN phase' = "crashed" /\ UNCHANGED <<fs, cnt>>
           ELSE IF chosen.tag = "none" \/ ~img.ok
           THEN cnt' = Bump("miss") /\ UNCHANGED <<fs, phase>>
           ELSE IF drawn.tag = "raise"
           THEN phase' = "crashed" /\ UNCHANGED <<fs, cnt>>
           ELSE IF cnt.ov_written < SAMPLE_OVERLAYS_PER_SET
           THEN /\ fs' = imwrite(withMask, ov_dir(variant, ds), OverlayFile(img))
                /\ cnt' = [cnt EXCEPT !.made = @ + 1, !.manual = @ + 1,
                                      !.ov_written = @ + 1]
                /\ UNCHANGED phase
           ELSE /\ fs' = withMask
                /\ cnt' = [cnt EXCEPT !.made = @ + 1, !.manual = @ + 1]
                /\ UNCHANGED phase
        /\ ei' = ei + 1
        /\ UNCHANGED <<variant, rev, resolveVars, rasterVars,
                       ann, dirs, di, idx, log, run, snap, DATASET, removed>>

RapidEntry == LoopBody("rapid")

RateEntry == LoopBody("rate")

\* The loop is over: the tally is printed and the batch loop goes on.
EndDataset ==
    /\ phase = "loop"
    /\ ei > Len(Items)
    /\ log' = Append(log, [ds |-> Sub.name, made |-> cnt.made, manual |-> cnt.manual,
                           skip |-> cnt.skip, miss |-> cnt.miss])
    /\ phase' = "main"
    /\ di' = di + 1
    /\ UNCHANGED <<variant, rev, resolveVars, rasterVars,
                   ann, fs, dirs, ei, idx, cnt, run, snap, DATASET, removed>>

\* The batch loop has walked every entry of DATA_DIR.
Exit ==
    /\ phase = "main"
    /\ di > Len(DataDir)
    /\ phase' = "done"
    /\ UNCHANGED <<variant, rev, resolveVars, rasterVars,
                   ann, fs, dirs, di, ei, idx, cnt, log, run, snap, DATASET, removed>>

\* The script is started again over the same inputs.
Rerun ==
    /\ phase \in {"done", "crashed"}
    /\ run = 1
    /\ run' = 2
    /\ snap' = fs
    /\ phase' = "main"
    /\ di' = 1
    /\ ei' = 0
    /\ idx' = <<>>
    /\ cnt' = ZeroCnt
    /\ log' = <<>>
    /\ UNCHANGED <<variant, rev, resolveVars, rasterVars, ann, fs, dirs,
                   DATASET, removed>>

Next ==
    \/ SkipFile
    \/ SkipOther
    \/ BeginRapid
    \/ BeginRate
    \/ RapidEntry
    \/ RateEntry
    \/ EndDataset
    \/ Exit
    \/ Rerun

Spec == Init /\ [][Next]_vars

\* ------------------------------------------------------------------ prune
\* int(s) of a decimal text with an optional sign
PyInt(s) == IF s # <<>> /\ s[1] = "-" THEN 0 - ParseInt(Tail(s)) ELSE ParseInt(s)

\* 09_prune_stale_masks.py, stem(cell, meas)
stem(cell, meas) ==
    Lower(<<"cell">> \o FormatInt(PyInt(cell), 2)
          \o <<"meas">> \o FormatInt(PyInt(meas), 4))

\* Mutant: only the stem of the key itself is allowed, not that of meas-1.
RECURSIVE allowed_exact_only(_)
allowed_exact_only(items) ==
    IF items = <<>> THEN {}
    ELSE LET k == Head(items)[1]
             v == Head(items)[2]
             m == TUPLE_KEY_RE(Strip(k))
         IN  (IF v.isdict /\ v.selection = "manual" /\ m # <<>>
              THEN {stem(m[1], m[2])}
              ELSE {})
             \cup allowed_exact_only(Tail(items))

\* The stems the prune script keeps: for each manual tuple key, the stem of
\* the key and the stem of the measurement before it.
RECURSIVE allowed(_)
allowed(items) ==
    IF items = <<>> THEN {}
    ELSE LET k == Head(items)[1]
             v == Head(items)[2]
             m == TUPLE_KEY_RE(Strip(k))
         IN  (IF v.isdict /\ v.selection = "manual" /\ m # <<>>
              THEN {stem(m[1], m[2]),
                    stem(m[1], FormatInt(PyInt(m[2]) - 1, 4))}
              ELSE {})
             \cup allowed(Tail(items))

\* The annotation file the prune script reads: <dataset>_im_annotations.json
\* in the dataset folder, else the one of the sibling <dataset>_annotations
\* folder; it does not look into the dataset's annotations/ subfolder.
prune_ann_file(file) == IF file.place = "root" THEN file ELSE NoAnn

\* json.loads(ann_file.read_text()) followed by ann.items(), uncaught
json_loads(file) ==
    IF file.kind = "object" THEN [tag |-> "ok", items |-> file.items]
    ELSE [tag |-> "raise", items |-> <<>>]

\* mask_dir = MASKS_DIR / DATASET
prune_mask_dir(ds) == Loc("masks", ds, "")

\* mask_dir.glob("*_mask.png")
glob_mask_png(files) ==
    {f \in files : /\ f.isfile
                   /\ f.ext = ".png"
                   /\ f.stem # <<>>
                   /\ f.stem[Len(f.stem)] = "_mask"}

\* mpath.stem.replace("_mask", "").lower()
base(f) == Lower(SelectSeq(f.stem, LAMBDA t : t # "_mask"))

\* One run of the prune script, set to one of the datasets, after a run of
\* the mask script.
Prune ==
    \E ds \in Datasets :
        LET file == prune_ann_file(ann[ds])
            loaded == json_loads(file)
            keep == allowed(loaded.items)
            stale == {f \in glob_mask_png(fs[prune_mask_dir(ds)]) : base(f) \notin keep}
        IN  /\ phase = "done"
            /\ DATASET' = ds
            /\ IF file = NoAnn
               THEN phase' = "prune_exit" /\ UNCHANGED <<fs, removed>>
               ELSE IF loaded.tag = "raise"
               THEN phase' = "prune_raised" /\ UNCHANGED <<fs, removed>>
               ELSE IF prune_mask_dir(ds) \notin dirs
               THEN phase' = "prune_exit" /\ UNCHANGED <<fs, removed>>
               ELSE /\ fs' = [fs EXCEPT ![prune_mask_dir(ds)] = @ \ stale]
                    /\ removed' = Cardinality(stale)
                    /\ phase' = "pruned"
            /\ UNCHANGED <<variant, rev, resolveVars, rasterVars,
                           ann, dirs, di, ei, idx, cnt, log, run, snap>>

NextPrune == Next \/ Prune

SpecPrune == Init /\ [][NextPrune]_vars

\* ------------------------------------------------- resolver properties
Abs(x) == IF x < 0 THEN -x ELSE x

ReqCell == ParseInt(req.cell_str)

ReqMeasInt == ParseInt(req.meas_str)

\* The images of the requested cell that the rapid layout can use: image
\* files of the folder named cell<NN>meas<digits>...
RapidCellImages ==
    {p \in folder :
        /\ p.isfile
        /\ LowerTok(p.ext) \in IMG_EXTS(variant)
        /\ (variant = "main" => ~ContainsOverlay(Lower(p.stem)))
        /\ StartsWith(Lower(p.stem), CellPrefix(ReqCell))
        /\ MeasSearch(Lower(p.stem)) # <<>>}

RapidCellMeas == {MeasKey(p) : p \in RapidCellImages}

\* C1: whenever images of the requested cell are present, the rapid resolver
\* returns the one with the requested measurement if there is one, else the
\* one with measurement - 1 if there is one, else the one with the smallest
\* measurement of the cell.
C1_RapidPriority ==
    (op = "rapid" /\ RapidCellImages # {}) =>
        /\ res.tag = "path"
        /\ res.path \in RapidCellImages
        /\ MeasKey(res.path) =
             IF ReqMeasInt \in RapidCellMeas THEN ReqMeasInt
             ELSE IF (ReqMeasInt - 1) \in RapidCellMeas THEN ReqMeasInt - 1
             ELSE MinOf(RapidCellMeas)

\* The smallest-measurement fallback has been taken although another image
\* of the cell is nearer to the request.
C1_Witness ==
    /\ op = "rapid"
    /\ res.tag = "path"
    /\ MeasKey(res.path) \notin {ReqMeasInt, ReqMeasInt - 1}
    /\ \E p \in RapidCellImages :
          Abs(MeasKey(p) - ReqMeasInt) < Abs(MeasKey(res.path) - ReqMeasInt)

RateIndex == index_images_by_stem(variant, rev, RateFolderName, folder)

\* The stem at a measurement offset of the requested one.
OffsetStem(d) ==
    <<"cell">> \o FormatInt(ReqCell, 2) \o <<"meas">> \o FormatInt(ReqMeasInt + d, 4)

\* The stems the rate resolver looks up directly, in priority order.
RatePriority == <<OffsetStem(0), OffsetStem(-1), OffsetStem(-2), OffsetStem(1)>>

RatePresent == {i \in 1..4 : RatePriority[i] \in DOMAIN RateIndex}

\* C2: the rate resolver returns the image of the exact stem if indexed,
\* else the first indexed one of the stems at offsets -1, -2, +1.
C2_RateOffsets ==
    (op = "rate" /\ RatePresent # {}) =>
        res = Found(RateIndex[RatePriority[MinOf(RatePresent)]])

\* The -2 and +1 stems are both indexed, the exact and -1 stems are not,
\* and the -2 image has been returned.
C2_Witness ==
    /\ op = "rate"
    /\ RatePresent = {3, 4}
    /\ res.tag = "path"
    /\ Lower(res.path.stem) = OffsetStem(-2)

\* The indexed stems of the requested cell, and those that carry a number.
RateSameCell == {k \in DOMAIN RateIndex : StartsWith(k, CellPrefix(ReqCell))}

RateNumbered == {k \in RateSameCell : MeasSearch(k) # <<>>}

RateDist(k) == Abs(ParseInt(MeasSearch(k)) - ReqMeasInt)

\* The nearest-by-value pick, ties to the lowest measurement.
IsNearest(k) ==
    /\ k \in RateNumbered
    /\ \A o \in RateNumbered :
          \/ RateDist(k) < RateDist(o)
          \/ /\ RateDist(k) = RateDist(o)
             /\ ParseInt(MeasSearch(k)) <= ParseInt(MeasSearch(o))

\* C3: with no exact or offset hit and some stem of the cell indexed, the
\* rate resolver returns the image of the cell nearest in measurement, the
\* lowest measurement winning a tie.
C3_RateNearest ==
    (op = "rate" /\ RatePresent = {} /\ RateSameCell # {}) =>
        /\ res.tag = "path"
        /\ IsNearest(Lower(res.path.stem))
        /\ res.path = RateIndex[Lower(res.path.stem)]

\* C3 on the indexes where every stem of the cell carries a number: there
\* the nearest pick and its tie-break are as claimed.
C3_NearestWhenNumbered ==
    (op = "rate" /\ RatePresent = {} /\ RateSameCell # {}
        /\ RateNumbered = RateSameCell) =>
        /\ res.tag = "path"
        /\ IsNearest(Lower(res.path.stem))
        /\ res.path = RateIndex[Lower(res.path.stem)]

\* Two candidates at the same distance, below and above the request.
C3_TieReached ==
    /\ op = "rate"
    /\ RatePresent = {}
    /\ res.tag = "path"
    /\ \E o \in RateNumbered :
          /\ RateDist(o) = RateDist(Lower(res.path.stem))
          /\ ParseInt(MeasSearch(o)) > ParseInt(MeasSearch(Lower(res.path.stem)))

\* The image files of the folder whose stem starts with cell<NN>meas.
RapidPrefixed ==
    {p \in find_images(variant, folder) :
        StartsWith(Lower(p.stem), CellPrefix(ReqCell))}

\* C4: a resolver ends in a miss, and never in an exception, exactly when
\* no image of the requested cell exists; otherwise it returns an image of
\* that cell.
C4_MissIffNoCellImage ==
    /\ op = "rapid" =>
          /\ res.tag # "raise"
          /\ (res = None) <=> (RapidPrefixed = {})
          /\ res.tag = "path" => res.path \in RapidPrefixed
    /\ op = "rate" =>
          /\ res.tag # "raise"
          /\ (res = None) <=> (RateSameCell = {})
          /\ res.tag = "path" => Lower(res.path.stem) \in RateSameCell


\* ---------------------------------------------------- batch properties
\* The entry the loop is about to process.
AtEntry == phase = "loop" /\ ei \in 1..Len(Items)

CurEntry == Items[ei][2]

\* C5: processing an entry whose selection is not exactly "manual" (or that
\* is not an object) writes no mask file and no overlay file.
C5_NonManualWritesNothing ==
    [][(AtEntry /\ ~(CurEntry.isdict /\ CurEntry.selection = "manual"))
          => fs' = fs]_vars

\* What the layout's resolver gives for the key of item i of the dataset.
ResolvedFor(i) ==
    LET m == TUPLE_KEY_RE(Strip(Items[i][1]))
    IN  IF LayoutOf(Sub.name) = "rapid"
        THEN choose_rapid_image(variant, rev,
                 iterdir(fs, dirs, Loc("data", Sub.name, "")), m[1], m[2])
        ELSE choose_rate_image(stem_for(m[1], m[2]), idx)

\* An "exclude" entry with a polygon, whose key resolves to a readable
\* image, has been processed and counted as skipped.
C5_Witness ==
    /\ phase = "loop"
    /\ ei \in 2..(Len(Items) + 1)
    /\ Items[ei - 1][2].selection = "exclude"
    /\ Items[ei - 1][2].clickData = PyList(<<Triangle>>)
    /\ ResolvedFor(ei - 1).tag = "path"
    /\ ResolvedFor(ei - 1).path.ok
    /\ cnt.skip >= 1

\* The mask files of a file system, wherever they lie: directory and file.
MaskFilesOf(fsys) ==
    {<<d, f>> \in AllDirs \X UNION {fsys[d] : d \in AllDirs} :
        /\ f \in fsys[d]
        /\ f.stem # <<>>
        /\ f.stem[Len(f.stem)] = "_mask"}

\* C6: a second run over the same inputs leaves the same mask files, with
\* the same pixels, as the first run left.
C6_RerunSameMasks ==
    (run = 2 /\ phase \in {"done", "crashed"}) => MaskFilesOf(fs) = MaskFilesOf(snap)

\* The second run has finished and has written a mask with foreground over
\* the mask of the first run.
C6_Witness ==
    /\ run = 2
    /\ phase = "done"
    /\ \E i \in 1..Len(log) : log[i].made >= 1 /\ log[i].ds = "DN1-rapid"
    /\ \E x \in MaskFilesOf(fs) : x[1].ds = "DN1-rapid" /\ 255 \in Pixels(x[2].px)

\* The annotation file of the dataset is not where the script looks for it,
\* or is not JSON.
Unusable(ds) ==
    \/ ann[ds].place = "none"
    \/ ann[ds].place = "alt" /\ variant = "hoseyn"
    \/ ann[ds].kind = "garbage"

\* C9: a dataset whose annotation file is missing or unparsable gets no
\* mask file, raises nothing, and ends with zero written masks.
C9_UnusableAnnotationsSkip ==
    \A ds \in Datasets :
        Unusable(ds) =>
            /\ \A d \in OutputDirs : d.ds = ds => fs[d] = {}
            /\ ~(phase = "crashed" /\ Sub.name = ds)
            /\ \A i \in 1..Len(log) : log[i].ds = ds => log[i].made = 0

\* The batch is over; the rapid dataset, with an image in its folder and an
\* unparsable annotation file, ended with a tally of zero.
C9_Witness ==
    /\ phase = "done"
    /\ ann["DN1-rapid"].kind = "garbage"
    /\ ann["DN1-rapid"].place = "root"
    /\ fs[Loc("data", "DN1-rapid", "")] # {}
    /\ \E i \in 1..Len(log) : log[i].ds = "DN1-rapid" /\ log[i].made = 0
    /\ \E i \in 1..Len(log) : log[i].ds = "DN2-rate" /\ log[i].made = 1

\* C10: the batch never stops on an exception while a later dataset is
\* still to be processed.
C10_BatchGoesOn ==
    ~(/\ phase = "crashed"
      /\ \E j \in (di + 1)..Len(DataDir) :
            DataDir[j].isdir /\ DataDir[j].suffix \in {"-rapid", "-rate"})

\* The key and the entry the loop is about to process.
CurKey == Items[ei][1]

\* The folder of the dataset being processed, as iterdir() lists it.
CurFolder == iterdir(fs, dirs, Loc("data", Sub.name, ""))

AllDigits(s) == s # <<>> /\ \A i \in 1..Len(s) : IsDigit(s[i])

AllSpaces(s) == \A i \in 1..Len(s) : s[i] = " "

\* The text is ('<digits>','<digits>'), blanks allowed after the comma.
IsTupleShaped(s) ==
    \E i, j \in 1..Len(s) :
        /\ i < j
        /\ SubSeq(s, 1, 2) = <<"(", "'">>
        /\ AllDigits(SubSeq(s, 3, i - 1))
        /\ s[i] = "'"
        /\ At(s, i + 1) = ","
        /\ i + 2 <= j
        /\ AllSpaces(SubSeq(s, i + 2, j - 1))
        /\ s[j] = "'"
        /\ AllDigits(SubSeq(s, j + 1, Len(s) - 2))
        /\ s[Len(s) - 1] = "'"
        /\ s[Len(s)] = ")"

\* The cell of a tuple-shaped key, as the prefix of its images' stems.
KeyPrefix(k) == CellPrefix(ParseInt(TUPLE_KEY_RE(Strip(k))[1]))

\* No file of the dataset folder has a stem that starts with the prefix.
NoFileOfCell(k) ==
    \A p \in CurFolder : ~(p.isfile /\ StartsWith(Lower(p.stem), KeyPrefix(k)))

\* The key of item i resolves to no image, or to one that cannot be decoded.
MissOn(i, r) ==
    \/ r.tag = "none"
    \/ r.tag = "path" /\ ~r.path.ok
    \/ NoFileOfCell(Items[i][1])

IsMiss(i) == MissOn(i, ResolvedFor(i))

ManualTuple(i) ==
    /\ IsTupleShaped(Strip(Items[i][1]))
    /\ Items[i][2].isdict
    /\ Items[i][2].selection = "manual"

\* C11: a manual entry whose key resolves to no image, or to an image that
\* cannot be decoded, adds exactly 1 to the missing-images counter, writes
\* no file, and the loop goes on with the next entry.
C11_MissIsPerEntry ==
    [][(AtEntry /\ ManualTuple(ei) /\ IsMiss(ei)) =>
          /\ cnt' = [cnt EXCEPT !.miss = @ + 1]
          /\ fs' = fs
          /\ phase' = "loop"
          /\ ei' = ei + 1]_vars

\* The first entry was a miss on an image that cannot be decoded, and the
\* entry after it has been written.
C11_Witness ==
    /\ phase = "loop"
    /\ ei = 3
    /\ ManualTuple(1)
    /\ ResolvedFor(1).tag = "path"
    /\ ~ResolvedFor(1).path.ok
    /\ ManualTuple(2)
    /\ cnt.miss = 1
    /\ cnt.made = 1

\* C12: an entry whose key is not of the tuple-string shape changes no
\* counter and writes no file, whatever its value is.
C12_NonTupleKeyIgnored ==
    [][(AtEntry /\ ~IsTupleShaped(Strip(CurKey))) =>
          /\ cnt' = cnt
          /\ fs' = fs
          /\ phase' = "loop"]_vars

\* A manual entry with a polygon, under a key that is a tuple followed by
\* more text, has been passed over in a folder that holds the image of
\* that tuple.
C12_Witness ==
    /\ phase = "loop"
    /\ ei = 2
    /\ ~IsTupleShaped(Strip(Items[1][1]))
    /\ Items[1][2].selection = "manual"
    /\ Items[1][2].clickData = PyList(<<Triangle>>)
    /\ Image(Canon(2, 1), ".tif", 2, 2) \in CurFolder
    /\ cnt = ZeroCnt
    /\ fs[mask_dir(variant, Sub.name)] = {}

\* The mask files in the masks directory of the dataset being processed.
MasksOfPass ==
    {f \in fs[mask_dir(variant, Sub.name)] :
        f.stem # <<>> /\ f.stem[Len(f.stem)] = "_mask"}

\* C13: during and after a dataset pass of the first run, the number of
\* distinct mask files of the dataset equals the 'wrote' tally: one mask
\* file per manual entry that resolved to a readable image.
C13_OneMaskPerPair ==
    (run = 1 /\ phase = "loop") => Cardinality(MasksOfPass) = cnt.made

\* Entry i of the pass ended with a mask written (the pass has not raised).
Written(i) == ManualTuple(i) /\ ~IsMiss(i)

\* How entry i of the pass ended, and the image it was written over.
Outcome(i) ==
    IF ~IsTupleShaped(Strip(Items[i][1])) THEN [i |-> i, out |-> "ignored", img |-> NoFile]
    ELSE IF ~ManualTuple(i) THEN [i |-> i, out |-> "skip", img |-> NoFile]
    ELSE LET r == ResolvedFor(i)
         IN  IF MissOn(i, r) THEN [i |-> i, out |-> "miss", img |-> NoFile]
             ELSE [i |-> i, out |-> "made", img |-> r.path]

\* The outcomes of the first n entries of the pass, in processing order.
RECURSIVE History(_)
History(n) == IF n <= 0 THEN <<>> ELSE Append(History(n - 1), Outcome(n))

\* Those of the entries processed so far that were written.
WrittenSoFar == SelectSeq(History(ei - 1), LAMBDA o : o.out = "made")

Min(a, b) == IF a < b THEN a ELSE b

OverlaysOfPass == fs[ov_dir(variant, Sub.name)]

\* C14: at every point of a dataset pass the number of overlay writes is
\* min(masks written so far, 12), and (first run) the overlay files are
\* those of the images of the first 12 written entries; the counter is 0
\* when a pass starts.
C14_OverlayCap ==
    phase = "loop" =>
        LET w == WrittenSoFar
        IN  /\ cnt.ov_written = Min(cnt.made, 12)
            /\ cnt.made = Len(w)
            /\ run = 1 =>
                  {f.stem : f \in OverlaysOfPass} =
                  {w[j].img.stem \o <<"_overlay">> : j \in 1..Min(Len(w), 12)}

\* Thirteen masks have been written in a pass that follows a pass with
\* overlays; the thirteenth has a mask file and no overlay file.
C14_Witness ==
    /\ phase = "loop"
    /\ cnt.made = 13
    /\ cnt.ov_written = 12
    /\ Sub.name = "DN2-rate"
    /\ fs[ov_dir(variant, "DN1-rapid")] # {}
    /\ \E f \in MasksOfPass : f.stem = Canon(2, 15) \o <<"_mask">>
    /\ \A f \in OverlaysOfPass : f.stem # Canon(2, 15) \o <<"_overlay">>
    /\ Cardinality(OverlaysOfPass) = 12

\* ------------------------------------------------- rate index property
\* C15: in both variants the rate index holds only files of the dataset
\* folder itself with an image extension and without "overlay" in the
\* stem, and the rate resolver never returns an overlay or mask file.
C15_RateIndexClean ==
    /\ \A k \in DOMAIN RateIndex :
          /\ RateIndex[k] \in folder
          /\ RateIndex[k].isfile
          /\ LowerTok(RateIndex[k].ext) \in {".tif", ".tiff", ".png", ".jpg", ".jpeg"}
          /\ ~ContainsOverlay(Lower(RateIndex[k].stem))
    /\ (op = "rate" /\ res.tag = "path") =>
          /\ ~ContainsOverlay(Lower(res.path.stem))
          /\ res.path.stem[Len(res.path.stem)] # "_mask"

\* The same, of the main variant (02_make_masks.py) alone.
C15_MainIndexClean == variant = "main" => C15_RateIndexClean

\* The hoseyn variant's resolver has returned the overlay file of the
\* folder as the nearest image of the cell.
C15_OverlayReturned ==
    /\ variant = "hoseyn"
    /\ op = "rate"
    /\ res.tag = "path"
    /\ ContainsOverlay(Lower(res.path.stem))

\* --------------------------------------------------------- the tallies
CountOf(h, out) == Cardinality({j \in 1..Len(h) : h[j].out = out})

\* C16: while a pass runs, every tuple-shaped key processed so far is
\* counted in exactly one of wrote, skipped_nonmanual, missing_images, so
\* the three add up to the number of such keys, and manual equals wrote;
\* the printed tallies have manual equal to wrote.
C16_TallyConservation ==
    /\ phase = "loop" =>
          LET h == History(ei - 1)
          IN  /\ cnt.made = CountOf(h, "made")
              /\ cnt.skip = CountOf(h, "skip")
              /\ cnt.miss = CountOf(h, "miss")
              /\ cnt.made + cnt.skip + cnt.miss = Len(h) - CountOf(h, "ignored")
              /\ cnt.manual = cnt.made
    /\ \A i \in 1..Len(log) : log[i].manual = log[i].made

\* A pass has ended with written, skipped and missed entries, one of the
\* misses being a manual entry.
C16_Witness ==
    /\ phase = "loop"
    /\ ei = Len(Items) + 1
    /\ cnt.made >= 1
    /\ cnt.skip >= 1
    /\ cnt.miss >= 1
    /\ cnt.manual = cnt.made
    /\ \E i \in 1..(ei - 1) : ManualTuple(i) /\ IsMiss(i)

\* ------------------------------------------------------ processing order
\* The mask the loop rasterizes from entry i over the image img.
MaskOn(i, img) ==
    LET entry == Items[i][2]
        polys == IF entry.hasClick THEN entry.clickData ELSE PyList(<<>>)
    IN  MaskFile(img, rasterize_mask(img.h, img.w, polys).mask)

MaskOfEntry(i) == MaskOn(i, ResolvedFor(i).path)

\* The last of the written entries w that was written over the image of
\* its j-th.
LastOnImage(w, j) ==
    CHOOSE k \in j..Len(w) :
        /\ w[k].img = w[j].img
        /\ \A l \in (k + 1)..Len(w) : w[l].img # w[j].img

\* C17: entries are processed in the mapping's order; every written entry
\* counts, and the mask file under an image's stem is the one rasterized
\* from the last processed entry that resolved to that image (first run).
C17_LaterEntryWins ==
    (run = 1 /\ phase = "loop") =>
        LET w == WrittenSoFar
        IN  /\ cnt.made = Len(w)
            /\ \A j \in 1..Len(w) :
                  LET last == w[LastOnImage(w, j)]
                  IN  {f \in MasksOfPass : f.stem = w[j].img.stem \o <<"_mask">>}
                          = {MaskOn(last.i, last.img)}

\* Two manual entries with different polygons have resolved to the same
\* image; both are counted and the file holds the mask of the second.
C17_Witness ==
    /\ run = 1
    /\ phase = "loop"
    /\ ei = 3
    /\ Written(1)
    /\ Written(2)
    /\ Items[1][1] # Items[2][1]
    /\ ResolvedFor(1).path = ResolvedFor(2).path
    /\ MaskOfEntry(1) # MaskOfEntry(2)
    /\ 255 \in Pixels(MaskOfEntry(1).px)
    /\ MasksOfPass = {MaskOfEntry(2)}
    /\ cnt.made = 2

\* ------------------------------------------------------ prune properties
\* What the layout's resolver gives for item i of the dataset ds.
ResolvedIn(ds, i) ==
    LET m == TUPLE_KEY_RE(Strip(ann[ds].items[i][1]))
        entries == iterdir(fs, dirs, Loc("data", ds, ""))
    IN  IF LayoutOf(ds) = "rapid"
        THEN choose_rapid_image(variant, rev, entries, m[1], m[2])
        ELSE choose_rate_image(stem_for(m[1], m[2]),
                 index_images_by_stem(variant, rev, ds, entries))

\* Item i of the dataset ds is a manual entry under a tuple-shaped key.
ManualKeyIn(ds, i) ==
    /\ IsTupleShaped(Strip(ann[ds].items[i][1]))
    /\ ann[ds].items[i][2].isdict
    /\ ann[ds].items[i][2].selection = "manual"

\* cellNNmeasMMMM of the key of item i, and of the measurement before it.
KeyStems(ds, i) ==
    LET m == TUPLE_KEY_RE(Strip(ann[ds].items[i][1]))
    IN  {Canon(ParseInt(m[1]), ParseInt(m[2])),
         Canon(ParseInt(m[1]), ParseInt(m[2]) - 1)}

\* The stem is that of a manual key of the dataset or of its meas-1.
StemAllowed(ds, b) ==
    \E i \in 1..Len(ann[ds].items) : ManualKeyIn(ds, i) /\ b \in KeyStems(ds, i)

IsMaskPng(f) ==
    f.isfile /\ f.ext = ".png" /\ f.stem # <<>> /\ f.stem[Len(f.stem)] = "_mask"

ImageStemOf(f) == Lower(SubSeq(f.stem, 1, Len(f.stem) - 1))

\* A prune run that went through to its end.
PruneStep == phase = "done" /\ phase' = "pruned"

\* After the step, a mask file of masks/<dataset> remains if and only if its
\* stem is allowed; nothing else changes.
PruneKeepsAllowed(ds) ==
    /\ \A f \in fs[prune_mask_dir(ds)] :
          IF IsMaskPng(f)
          THEN (f \in fs'[prune_mask_dir(ds)]) <=> StemAllowed(ds, ImageStemOf(f))
          ELSE f \in fs'[prune_mask_dir(ds)]
    /\ fs'[prune_mask_dir(ds)] \subseteq fs[prune_mask_dir(ds)]
    /\ \A d \in AllDirs \ {prune_mask_dir(ds)} : fs'[d] = fs[d]

\* Item i of the dataset was written through a fallback other than meas-1:
\* it resolved to a readable image whose stem is neither that of its key
\* nor that of the measurement before.
OtherFallback(ds, i) ==
    /\ ManualKeyIn(ds, i)
    /\ ResolvedIn(ds, i).tag = "path"
    /\ ResolvedIn(ds, i).path.ok
    /\ Lower(ResolvedIn(ds, i).path.stem) \notin KeyStems(ds, i)

MaskGone(ds, i) ==
    \A f \in fs'[prune_mask_dir(ds)] :
        f.stem # ResolvedIn(ds, i).path.stem \o <<"_mask">>

\* C18 as claimed: after a prune run a mask remains iff its stem is that of
\* a manual key or of its meas-1, and the masks whose image was chosen by
\* any other fallback are removed.
C18_PruneRemovesOtherFallbacks ==
    [][PruneStep =>
          /\ PruneKeepsAllowed(DATASET')
          /\ \A i \in 1..Len(ann[DATASET'].items) :
                OtherFallback(DATASET', i) => MaskGone(DATASET', i)]_vars

\* C18 amended: after a prune run a mask of masks/<dataset> remains iff its
\* stem is that of a manual key or of its meas-1, whichever entry wrote it;
\* a mask written through another fallback is removed unless its stem is
\* allowed through another manual key.
C18_PruneKeepsAllowedStems ==
    [][PruneStep =>
          /\ PruneKeepsAllowed(DATASET')
          /\ \A i \in 1..Len(ann[DATASET'].items) :
                (/\ OtherFallback(DATASET', i)
                 /\ ~StemAllowed(DATASET', Lower(ResolvedIn(DATASET', i).path.stem)))
                => MaskGone(DATASET', i)]_vars

\* A prune run has removed the mask of an image chosen as the smallest of
\* its cell and has kept the mask of an image chosen by meas-1.
C18_Witness ==
    /\ phase = "pruned"
    /\ removed = 1
    /\ Cardinality(glob_mask_png(fs[prune_mask_dir(DATASET)])) = 1
    /\ \E i \in 1..Len(ann[DATASET].items) :
          /\ ManualKeyIn(DATASET, i)
          /\ ResolvedIn(DATASET, i).tag = "path"
          /\ Lower(ResolvedIn(DATASET, i).path.stem) \notin KeyStems(DATASET, i)
          /\ \A f \in fs[prune_mask_dir(DATASET)] :
                f.stem # ResolvedIn(DATASET, i).path.stem \o <<"_mask">>

=============================================================================
